---- MODULE Spec2Model ----
(***************************************************************************)
(* HEP-Times, news/utils.py: the arXiv batch selector (fetch_arxiv_papers) *)
(* and the LaTeX text sanitizer (clean_latex_text).                        *)
(*                                                                         *)
(* Text is a sequence of tokens: one token per character that matters     *)
(* ("$", "}", newline, an ordinary character "a") and one token per macro  *)
(* opener ("\textbf{" ...), which the regular expressions match literally. *)
(* A category is a sequence of tokens too ("astro-ph", ".", "CO").         *)
(* Instants are integer seconds (datetime.timestamp()).                    *)
(***************************************************************************)
EXTENDS Integers, Sequences, FiniteSets, TLC

VARIABLES entries, max_results, primary_category_filter, pc,
          papers, result, rerun_limit, rerun_result,
          text, text_is_none, spc, parts, cleaned_parts, cleaned

vars == <<entries, max_results, primary_category_filter, pc,
          papers, result, rerun_limit, rerun_result,
          text, text_is_none, spc, parts, cleaned_parts, cleaned>>

selector_vars == <<entries, max_results, primary_category_filter, pc,
                   papers, result, rerun_limit, rerun_result>>

sanitizer_vars == <<text, text_is_none, spc, parts, cleaned_parts, cleaned>>

----------------------------------------------------------------------------
(* Bounds of the model *)

MaxEntries == 3

MaxLimit == 2

MaxLen == 4

----------------------------------------------------------------------------
(* Sequence helpers *)

RECURSIVE Reverse(_)
Reverse(s) == IF s = <<>> THEN <<>> ELSE Reverse(Tail(s)) \o <<Head(s)>>

RECURSIVE Concat(_)
Concat(ss) == IF ss = <<>> THEN <<>> ELSE Head(ss) \o Concat(Tail(ss))

startswith(s, prefix) ==
    /\ Len(s) >= Len(prefix)
    /\ SubSeq(s, 1, Len(prefix)) = prefix

Max2(a, b) == IF a >= b THEN a ELSE b

Min2(a, b) == IF a <= b THEN a ELSE b

----------------------------------------------------------------------------
(* clean_latex_text *)

NL == "\n"

RECURSIVE ScanTo(_, _, _)
(* `.*?` followed by a literal: the first position k >= from holding stop,  *)
(* with no newline before it ('.' does not match a newline); 0 if none.     *)
ScanTo(s, from, stop) ==
    IF from > Len(s) THEN 0
    ELSE IF s[from] = stop THEN from
    ELSE IF s[from] = NL THEN 0
    ELSE ScanTo(s, from + 1, stop)

(* The last position of the match of \$\$?.*?\$\$? that starts at i, 0 if   *)
(* there is none. The optional second dollar is tried first (greedy), the   *)
(* closing optional dollar is taken when it is there.                       *)
MathEnd(s, i) ==
    LET withTwo == IF i + 1 <= Len(s) /\ s[i + 1] = "$"
                   THEN ScanTo(s, i + 2, "$") ELSE 0
        withOne == ScanTo(s, i + 1, "$")
        k       == IF withTwo # 0 THEN withTwo ELSE withOne
    IN  IF s[i] # "$" \/ k = 0 THEN 0
        ELSE IF k + 1 <= Len(s) /\ s[k + 1] = "$" THEN k + 1 ELSE k

RECURSIVE SplitFrom(_, _, _)
SplitFrom(s, start, i) ==
    IF i > Len(s) THEN << SubSeq(s, start, Len(s)) >>
    ELSE LET end == MathEnd(s, i)
         IN  IF end # 0
             THEN << SubSeq(s, start, i - 1), SubSeq(s, i, end) >>
                  \o SplitFrom(s, end + 1, end + 1)
             ELSE SplitFrom(s, start, i + 1)

(* re.split(r'(\$\$?.*?\$\$?)', text) *)
re_split(s) ==
    IF \A k \in DOMAIN s : s[k] # "$" THEN << s >> ELSE SplitFrom(s, 1, 1)

RECURSIVE SubFrom(_, _, _, _, _)
SubFrom(s, i, opener, open, close) ==
    IF i > Len(s) THEN <<>>
    ELSE LET brace == IF s[i] = opener THEN ScanTo(s, i + 1, "}") ELSE 0
         IN  IF brace # 0
             THEN <<open>> \o SubSeq(s, i + 1, brace - 1) \o <<close>>
                  \o SubFrom(s, brace + 1, opener, open, close)
             ELSE << s[i] >> \o SubFrom(s, i + 1, opener, open, close)

(* re.sub(r'\\name\{(.*?)\}', r'<tag>\1</tag>', part) *)
re_sub(opener, open, close, s) ==
    IF \A k \in DOMAIN s : s[k] # opener THEN s
    ELSE SubFrom(s, 1, opener, open, close)

Openers == { "\\textsc{", "\\textbf{", "\\textit{", "\\texttt{", "\\emph{" }

process_first_only(part) ==
    LET a == re_sub("\\textsc{", "<span style=\"font-variant: small-caps;\">", "</span>", part)
        b == re_sub("\\textbf{", "<b>", "</b>", part)
        c == re_sub("\\textit{", "<i>", "</i>", part)
        d == re_sub("\\texttt{", "<code>", "</code>", part)
        e == re_sub("\\emph{", "<em>", "</em>", part)
    IN  IF a # part THEN a ELSE IF b # part THEN b ELSE IF c # part THEN c
        ELSE IF d # part THEN d ELSE e

(* The else branch of the loop: five substitutions, one after the other *)
process_text_commands(part) ==
    LET a == re_sub("\\textsc{", "<span style=\"font-variant: small-caps;\">", "</span>", part)
        b == re_sub("\\textbf{", "<b>", "</b>", a)
        c == re_sub("\\textit{", "<i>", "</i>", b)
        d == re_sub("\\texttt{", "<code>", "</code>", c)
        e == re_sub("\\emph{", "<em>", "</em>", d)
    IN  e

looks_like_math(part) == part # <<>> /\ Head(part) = "$"

clean_part_all(part) == process_text_commands(part)

(* One iteration of the loop over parts *)
clean_part(part) ==
    IF looks_like_math(part) THEN part ELSE process_text_commands(part)

RECURSIVE MapCleanPart(_)
MapCleanPart(ps) ==
    IF ps = <<>> THEN <<>> ELSE << clean_part(Head(ps)) >> \o MapCleanPart(Tail(ps))

clean_latex_text(t) ==
    IF t = <<>> THEN <<>> ELSE Concat(MapCleanPart(re_split(t)))

----------------------------------------------------------------------------
(* fetch_arxiv_papers: the feed *)

WINDOW == 24 * 3600

(* entry.published strings that dateutil parses, as the instant they denote *)
Times == {0, 1, WINDOW}

(* entry.published missing, or a string parser.parse() rejects *)
NoDate == -1

Unknown == << "Unknown" >>

(* ('arxiv_primary_category' term or <<>> when absent, entry.tags terms) *)
CategoryShapes ==
    { [primary |-> << "astro-ph", ".", "CO" >>, tags |-> <<>>],
      [primary |-> <<>>, tags |-> << << "astro-ph", "x" >>, << "hep-th" >> >>],
      [primary |-> <<>>, tags |-> <<>>] }

RawTitle == << "\\textit{", NL, "}" >>

RawSummary == << NL, "$", "}", "$" >>

Entry(published, has_authors, shape) ==
    [id |-> 0, published |-> published, has_authors |-> has_authors,
     arxiv_primary_category |-> shape.primary, tags |-> shape.tags,
     title |-> RawTitle, summary |-> RawSummary]

(* What one feed entry can look like; id is set from the feed position *)
EntryShapes ==
    { Entry(t, TRUE, c) : t \in Times, c \in CategoryShapes }
    \cup { Entry(NoDate, TRUE, [primary |-> << "astro-ph", ".", "CO" >>, tags |-> <<>>]),
           Entry(WINDOW, FALSE, [primary |-> << "astro-ph", ".", "CO" >>, tags |-> <<>>]) }

(* feed.entries built from n entry shapes, ids in feed order *)
Feed(f) == [i \in DOMAIN f |-> [f[i] EXCEPT !.id = i]]

Filters == { <<>>, << "astro-ph" >> }

fetch_limit(limit) == Max2(100, limit * 5)

----------------------------------------------------------------------------
(* fetch_arxiv_papers: one entry *)

RECURSIVE replace_newlines(_)
replace_newlines(s) ==
    IF s = <<>> THEN <<>>
    ELSE << IF Head(s) = NL THEN " " ELSE Head(s) >> \o replace_newlines(Tail(s))

RECURSIVE lstrip(_)
lstrip(s) == IF s # <<>> /\ Head(s) \in {" ", NL} THEN lstrip(Tail(s)) ELSE s

strip(s) == Reverse(lstrip(Reverse(lstrip(s))))

parses_without_authors(entry) == entry.published # NoDate

(* The try body runs to the end: entry.authors exists, the date parses *)
parses(entry) == entry.has_authors /\ entry.published # NoDate

primary_category_of(entry) ==
    IF entry.arxiv_primary_category # <<>> THEN entry.arxiv_primary_category
    ELSE IF Len(entry.tags) > 0 THEN entry.tags[1]
    ELSE Unknown

paper_of(entry) ==
    [id               |-> entry.id,
     title            |-> clean_latex_text(replace_newlines(entry.title)),
     abstract         |-> clean_latex_text(strip(replace_newlines(entry.summary))),
     published        |-> entry.published,
     primary_category |-> primary_category_of(entry)]

(* `not papers` after the loop: every entry raised *)
no_papers(es) == \A i \in DOMAIN es : ~ parses(es[i])

RECURSIVE parse_entries(_)
(* the loop over feed.entries: an entry that raises is skipped *)
parse_entries(es) ==
    IF es = <<>> THEN <<>>
    ELSE (IF parses(Head(es)) THEN << paper_of(Head(es)) >> ELSE <<>>)
         \o parse_entries(Tail(es))

----------------------------------------------------------------------------
(* fetch_arxiv_papers: the latest batch *)

RECURSIVE insert_stable(_, _)
(* x goes after every element whose key is not greater: equal keys keep    *)
(* their order                                                             *)
insert_stable(sorted, x) ==
    IF sorted = <<>> THEN << x >>
    ELSE IF x.published < Head(sorted).published THEN << x >> \o sorted
    ELSE << Head(sorted) >> \o insert_stable(Tail(sorted), x)

RECURSIVE list_sort(_)
(* list.sort(key=published): stable, ascending *)
list_sort(s) ==
    IF s = <<>> THEN <<>>
    ELSE insert_stable(list_sort(SubSeq(s, 1, Len(s) - 1)), s[Len(s)])

sort_reverse_of_ascending(s) == Reverse(list_sort(s))

(* list.sort(key=published, reverse=True): descending, equal keys keep     *)
(* their order (the list is reversed, sorted and reversed back)            *)
sort_descending(s) == Reverse(list_sort(Reverse(s)))

sort_descending_then_reverse(s) == Reverse(sort_descending(s))

(* latest_batch.sort(key=published) *)
sort_ascending(s) == list_sort(s)

in_window_or_on_cutoff(p, cutoff_time) == p.published >= cutoff_time

in_window(p, cutoff_time) == p.published > cutoff_time

RECURSIVE within_24h(_, _)
within_24h(ps, cutoff_time) ==
    IF ps = <<>> THEN <<>>
    ELSE (IF in_window(Head(ps), cutoff_time) THEN << Head(ps) >> ELSE <<>>)
         \o within_24h(Tail(ps), cutoff_time)

category_differs(p, filter) == ~ startswith(p.primary_category, filter)

category_matches(p, filter) == startswith(p.primary_category, filter)

RECURSIVE category_filtered(_, _)
category_filtered(ps, filter) ==
    IF ps = <<>> THEN <<>>
    ELSE (IF category_matches(Head(ps), filter) THEN << Head(ps) >> ELSE <<>>)
         \o category_filtered(Tail(ps), filter)

slice_one_more(s, n) ==
    IF n >= 0 THEN SubSeq(s, 1, Min2(n + 1, Len(s)))
    ELSE SubSeq(s, 1, Max2(Len(s) + n + 1, 0))

slice_last(s, n) ==
    IF n >= 0 THEN SubSeq(s, Len(s) - Min2(n, Len(s)) + 1, Len(s))
    ELSE SubSeq(s, 1, Max2(Len(s) + n, 0))

slice_one_less(s, n) ==
    IF n >= 0 THEN SubSeq(s, 1, Min2(Max2(n - 1, 0), Len(s)))
    ELSE SubSeq(s, 1, Max2(Len(s) + n, 0))

(* s[:n], a negative n counting from the end *)
slice(s, n) ==
    IF n >= 0 THEN SubSeq(s, 1, Min2(n, Len(s)))
    ELSE SubSeq(s, 1, Max2(Len(s) + n, 0))

(* From papers.sort(reverse=True) to the second sort; ps is not empty *)
latest_batch_of(ps, filter) ==
    LET sorted      == sort_descending(ps)
        latest_ts   == sorted[1].published
        cutoff_time == latest_ts - WINDOW
        batch       == within_24h(sorted, cutoff_time)
        kept        == IF filter # <<>> THEN category_filtered(batch, filter) ELSE batch
    IN  sort_ascending(kept)

(* From `if not papers` to the return *)
select(ps, limit, filter) ==
    IF ps = <<>> THEN <<>> ELSE slice(latest_batch_of(ps, filter), limit)

----------------------------------------------------------------------------
(* The calls *)

InitSanitizerIdle ==
    /\ text = <<>> /\ text_is_none = FALSE /\ spc = "idle"
    /\ parts = <<>> /\ cleaned_parts = <<>> /\ cleaned = <<>>

InitSelectorIdle ==
    /\ entries = <<>> /\ max_results = 10 /\ primary_category_filter = <<>>
    /\ pc = "idle" /\ papers = <<>> /\ result = <<>>
    /\ rerun_limit = 0 /\ rerun_result = <<>>

Init ==
    /\ \E n \in 0..MaxEntries : \E f \in [1..n -> EntryShapes] : entries = Feed(f)
    /\ max_results \in -1..MaxLimit
    /\ primary_category_filter \in Filters
    /\ Len(entries) <= fetch_limit(max_results)
    /\ pc = "start"
    /\ papers = <<>> /\ result = <<>>
    /\ rerun_limit = 0 /\ rerun_result = <<>>
    /\ InitSanitizerIdle

(* requests.get raises, or the status code is not 200: return [] *)
FetchFailed ==
    /\ pc = "start"
    /\ \E status_code \in {0, 200, 500} :
         /\ status_code # 200
         /\ pc' = "failed"
    /\ result' = <<>>
    /\ UNCHANGED <<entries, max_results, primary_category_filter, papers,
                   rerun_limit, rerun_result>>
    /\ UNCHANGED sanitizer_vars

(* No entry of the feed parses: return [] *)
FetchNoPapers ==
    /\ pc = "start"
    /\ no_papers(entries)
    /\ papers' = <<>>
    /\ result' = <<>>
    /\ pc' = "done"
    /\ UNCHANGED <<entries, max_results, primary_category_filter,
                   rerun_limit, rerun_result>>
    /\ UNCHANGED sanitizer_vars

(* The call that reaches the last return *)
FetchBatch ==
    /\ pc = "start"
    /\ ~ no_papers(entries)
    /\ LET parsed == parse_entries(entries)
           batch  == latest_batch_of(parsed, primary_category_filter)
       IN  /\ papers' = sort_descending(parsed)
           /\ result' = slice(batch, max_results)
    /\ pc' = "done"
    /\ UNCHANGED <<entries, max_results, primary_category_filter,
                   rerun_limit, rerun_result>>
    /\ UNCHANGED sanitizer_vars

(* The selection run again on the records it returned *)
SelectAgain ==
    /\ pc = "done"
    /\ \E limit \in Len(result)..(Len(result) + 1) :
         /\ rerun_limit' = limit
         /\ rerun_result' = select(result, limit, primary_category_filter)
    /\ pc' = "again"
    /\ UNCHANGED <<entries, max_results, primary_category_filter, papers,
                   result>>
    /\ UNCHANGED sanitizer_vars

Next == FetchFailed \/ FetchNoPapers \/ FetchBatch \/ SelectAgain

Spec == Init /\ [][Next]_vars

----------------------------------------------------------------------------
(* clean_latex_text, called on its own *)

Tokens == { "$", "a", "}", NL } \cup Openers

InitClean ==
    /\ \/ text_is_none = TRUE /\ text = <<>>
       \/ text_is_none = FALSE /\ \E n \in 0..MaxLen : text \in [1..n -> Tokens]
    /\ spc = "start"
    /\ parts = <<>> /\ cleaned_parts = <<>> /\ cleaned = <<>>
    /\ InitSelectorIdle

(* if not text: return "" *)
CleanEmpty ==
    /\ spc = "start"
    /\ text_is_none \/ text = <<>>
    /\ cleaned' = <<>>
    /\ spc' = "done"
    /\ UNCHANGED <<text, text_is_none, parts, cleaned_parts>>
    /\ UNCHANGED selector_vars

CleanSplit ==
    /\ spc = "start"
    /\ ~ text_is_none /\ text # <<>>
    /\ parts' = re_split(text)
    /\ cleaned_parts' = <<>>
    /\ spc' = "loop"
    /\ UNCHANGED <<text, text_is_none, cleaned>>
    /\ UNCHANGED selector_vars

CleanPart ==
    /\ spc = "loop"
    /\ Len(cleaned_parts) < Len(parts)
    /\ cleaned_parts' = Append(cleaned_parts, clean_part(parts[Len(cleaned_parts) + 1]))
    /\ UNCHANGED <<text, text_is_none, parts, cleaned, spc>>
    /\ UNCHANGED selector_vars

CleanJoin ==
    /\ spc = "loop"
    /\ Len(cleaned_parts) = Len(parts)
    /\ cleaned' = Concat(cleaned_parts)
    /\ spc' = "done"
    /\ UNCHANGED <<text, text_is_none, parts, cleaned_parts>>
    /\ UNCHANGED selector_vars

NextClean == CleanEmpty \/ CleanSplit \/ CleanPart \/ CleanJoin

SpecClean == InitClean /\ [][NextClean]_vars

----------------------------------------------------------------------------
(* Properties of the batch selector (checked under Spec) *)

Range(s) == { s[i] : i \in DOMAIN s }

Returned == pc \in {"done", "again"}

LatestParsed ==
    CHOOSE m \in { p.published : p \in Range(papers) } :
        \A p \in Range(papers) : p.published <= m

(* The parsed records inside the 24-hour window that pass the category filter *)
Eligible ==
    { p \in Range(papers) :
        /\ p.published > LatestParsed - WINDOW
        /\ \/ primary_category_filter = <<>>
           \/ /\ Len(p.primary_category) >= Len(primary_category_filter)
              /\ \A k \in 1..Len(primary_category_filter) :
                    p.primary_category[k] = primary_category_filter[k] }

HasCategory(entry) == entry.arxiv_primary_category # <<>> \/ entry.tags # <<>>

(* C1: every returned record is strictly younger than the latest parsed     *)
(* record minus 24 hours, so a record exactly 24 hours older is left out    *)
(* and any two returned records are less than 24 hours apart.               *)
C1_Window ==
    Returned =>
        /\ \A i \in DOMAIN result : result[i].published > LatestParsed - WINDOW
        /\ \A i, j \in DOMAIN result :
              result[i].published - result[j].published < WINDOW

C1_Witness ==
    /\ pc = "done"
    /\ result # <<>>
    /\ \E p \in Range(papers) :
          p.published = LatestParsed - WINDOW /\ p \notin Range(result)

(* C2: the returned list is non-decreasing by published, and records with   *)
(* the same instant keep the order they had in the feed (id is the feed     *)
(* position).                                                               *)
C2_Ordering ==
    Returned =>
        \A i, j \in DOMAIN result :
            i < j =>
                /\ result[i].published <= result[j].published
                /\ result[i].published = result[j].published
                      => result[i].id < result[j].id

C2_Witness ==
    /\ pc = "done"
    /\ \E i, j \in DOMAIN result :
          i < j /\ result[i].published = result[j].published

(* C3: for a limit of at least 1 the output is the min(limit, n) earliest   *)
(* of the n eligible records: it has that many records, all eligible, none  *)
(* twice, and no eligible record left out is earlier than a returned one.   *)
C3_Truncation ==
    (Returned /\ max_results >= 1) =>
        /\ Len(result) = Min2(max_results, Cardinality(Eligible))
        /\ Range(result) \subseteq Eligible
        /\ Cardinality(Range(result)) = Len(result)
        /\ \A p \in Eligible \ Range(result) :
              \A r \in Range(result) : p.published >= r.published

C3_Witness ==
    /\ pc = "done"
    /\ max_results >= 1
    /\ Cardinality(Eligible) > max_results
    /\ Len(result) = max_results

(* C4 as stated: for every integer limit, negative ones included, at most   *)
(* limit records are returned.                                              *)
C4_Original == Returned => Len(result) <= max_results

(* C4 as amended: for every limit of at least 0, at most limit records are  *)
(* returned.                                                                *)
C4_LengthBound == (Returned /\ max_results >= 0) => Len(result) <= max_results

C4_Witness ==
    /\ pc = "done"
    /\ max_results >= 0
    /\ Cardinality(Eligible) > max_results
    /\ Len(result) = max_results

(* C5 as stated: with the filter "astro-ph" every returned category equals  *)
(* "astro-ph" or starts with "astro-ph." (a dot boundary).                  *)
C5_Original ==
    (Returned /\ primary_category_filter = << "astro-ph" >>) =>
        \A i \in DOMAIN result :
            \/ result[i].primary_category = << "astro-ph" >>
            \/ /\ Len(result[i].primary_category) >= 2
               /\ result[i].primary_category[1] = "astro-ph"
               /\ result[i].primary_category[2] = "."

(* C5 as amended: with the filter "astro-ph" every returned category begins *)
(* with the characters of "astro-ph"; no dot boundary is required.          *)
C5_PlainPrefix ==
    (Returned /\ primary_category_filter = << "astro-ph" >>) =>
        \A i \in DOMAIN result :
            /\ Len(result[i].primary_category) >= 1
            /\ result[i].primary_category[1] = "astro-ph"

C5_Witness ==
    /\ pc = "done"
    /\ primary_category_filter = << "astro-ph" >>
    /\ \E i \in DOMAIN result : result[i].primary_category = << "astro-ph", "x" >>
    /\ \E p \in Range(papers) :
          p.published > LatestParsed - WINDOW /\ p \notin Eligible

(* C6 as stated: for any limit the output is empty exactly when nothing was *)
(* parsed or no record of the window passes the filter.                     *)
C6_Original ==
    pc \in {"done", "again", "failed"} =>
        (result = <<>> <=> (papers = <<>> \/ Eligible = {}))

(* C6 as amended: the same for every limit of at least 1.                   *)
C6_EmptyIff ==
    (pc \in {"done", "again", "failed"} /\ max_results >= 1) =>
        (result = <<>> <=> (papers = <<>> \/ Eligible = {}))

C6_Witness ==
    /\ pc = "done"
    /\ max_results >= 1
    /\ papers # <<>>
    /\ Eligible = {}
    /\ result = <<>>

(* C7: selecting again from the returned records, with the same filter and  *)
(* a limit of at least their number, returns the same records in the same   *)
(* order.                                                                   *)
C7_Idempotent ==
    pc = "again" => (rerun_limit >= Len(result) /\ rerun_result = result)

C7_Witness ==
    /\ pc = "again"
    /\ Len(result) >= 2
    /\ Len(result) < Len(papers)
    /\ \E i, j \in DOMAIN result :
          i < j /\ result[i].published = result[j].published
    /\ rerun_result = result

WellFormedStrict(entry) ==
    entry.has_authors /\ entry.published # NoDate /\ HasCategory(entry)

WellFormed(entry) == entry.has_authors /\ entry.published # NoDate

(* C8 as stated: an entry without a parseable date, without authors or      *)
(* without a category never appears in the output, and the output is that   *)
(* of the entries that have all three.                                      *)
C8_Original ==
    pc = "done" =>
        /\ \A i \in DOMAIN result : WellFormedStrict(entries[result[i].id])
        /\ result = select(parse_entries(SelectSeq(entries, WellFormedStrict)),
                           max_results, primary_category_filter)

(* C8 as amended: an entry without a parseable date or without authors      *)
(* never appears in the output and the output is that of the other entries; *)
(* an entry without a category is kept, with the category "Unknown".        *)
C8_Isolation ==
    pc = "done" =>
        /\ \A i \in DOMAIN result :
              /\ WellFormed(entries[result[i].id])
              /\ ~ HasCategory(entries[result[i].id])
                    => result[i].primary_category = << "Unknown" >>
        /\ result = select(parse_entries(SelectSeq(entries, WellFormed)),
                           max_results, primary_category_filter)

C8_Witness ==
    /\ pc = "done"
    /\ \E i \in DOMAIN entries : ~ entries[i].has_authors
    /\ \E i \in DOMAIN entries : entries[i].published = NoDate
    /\ \E i \in DOMAIN result : ~ HasCategory(entries[result[i].id])

----------------------------------------------------------------------------
(* Properties of the text sanitizer (checked under SpecClean) *)

StartsWithDollar(part) == Len(part) >= 1 /\ part[1] = "$"

RECURSIVE TotalLen(_, _)
TotalLen(ss, n) == IF n = 0 THEN 0 ELSE Len(ss[n]) + TotalLen(ss, n - 1)

(* C9: a part of the split that begins with a dollar sign is copied as it   *)
(* is, at its place in the output; the parts are joined in their order; an  *)
(* empty or absent text gives the empty string.                             *)
C9_MathUnchanged ==
    /\ \A i \in DOMAIN cleaned_parts :
          StartsWithDollar(parts[i]) => cleaned_parts[i] = parts[i]
    /\ spc = "loop" => Concat(parts) = text
    /\ (spc = "done" /\ text # <<>>) =>
          /\ Len(cleaned_parts) = Len(parts)
          /\ \A i \in DOMAIN parts :
                StartsWithDollar(parts[i]) =>
                    SubSeq(cleaned, TotalLen(cleaned_parts, i - 1) + 1,
                           TotalLen(cleaned_parts, i)) = parts[i]
    /\ (spc = "done" /\ (text_is_none \/ text = <<>>)) => cleaned = <<>>

C9_Witness ==
    /\ spc = "done"
    /\ text = << "$", "\\textbf{", "}", "$" >>
    /\ cleaned = text

OccursIn(tok, s) == \E k \in DOMAIN s : s[k] = tok

(* C10 as stated: in a non-math part a macro written inside another macro's *)
(* argument is not resolved: its opener is still there in the cleaned part. *)
C10_Original ==
    \A i \in DOMAIN cleaned_parts :
        ~ StartsWithDollar(parts[i]) =>
            \A a, b \in DOMAIN parts[i] :
                ( /\ a < b
                  /\ parts[i][a] \in Openers
                  /\ parts[i][b] \in Openers
                  /\ ScanTo(parts[i], a + 1, "}") > b )
                => OccursIn(parts[i][b], cleaned_parts[i])

(* C10 as amended: the substitutions run one after the other on the same    *)
(* part, so a macro inside the argument of a macro of another name is       *)
(* rewritten too: when no macro name occurs twice in a non-math part, the   *)
(* cleaned part holds no opener that still has a closing brace after it on  *)
(* its line.                                                                *)
C10_Sequential ==
    \A i \in DOMAIN cleaned_parts :
        ( /\ ~ StartsWithDollar(parts[i])
          /\ \A a, b \in DOMAIN parts[i] :
                (a # b /\ parts[i][a] \in Openers) => parts[i][a] # parts[i][b] )
        => \A a \in DOMAIN cleaned_parts[i] :
              cleaned_parts[i][a] \in Openers
                  => ScanTo(cleaned_parts[i], a + 1, "}") = 0

C10_Witness ==
    /\ spc = "done"
    /\ text = << "\\textbf{", "\\textit{", "}", "}" >>
    /\ cleaned = << "<b>", "<i>", "</b>", "</i>" >>

====
